---- MODULE Spec2Model ----
(***************************************************************************)
(* A model of eve/methods/get.py: the collection fetch `get`, the item     *)
(* fetch `getitem`, document enrichment, version synthesis, embedding      *)
(* resolution and pagination links.                                        *)
(*                                                                         *)
(* A Python dict is a TLA+ function whose domain is the set of its keys.   *)
(* Python objects live in `heap`, a sequence of dicts; a reference is an   *)
(* index into it, so that in-place mutation and aliasing are visible.      *)
(* Field values are integers: timestamps, identifiers, version numbers,    *)
(* ETag digests, and EmbeddedBase + id for an embedded related document.   *)
(***************************************************************************)
EXTENDS Integers, Sequences, FiniteSets, TLC

VARIABLES
    pc,       \* "start" before the handler runs, "done" after it
    config,   \* the deployment and resource settings (config, config.DOMAIN[resource])
    req,      \* the parsed request (parse_request) and request.args
    lookup,   \* the lookup dict the handler is called with
    data,     \* what the storage collaborator holds (app.data)
    hooks,    \* what the registered on_fetch_* callbacks do to a document
    heap,     \* the Python objects the handler created, by reference
    locals,   \* the handler's local variables at its end
    calls,    \* the collaborator calls the handler made, in order
    ret       \* what the handler returned or raised

vars == <<pc, config, req, lookup, data, hooks, heap, locals, calls, ret>>

(***************************************************************************)
(* Bounds of the model.                                                    *)
(***************************************************************************)
MaxTime == 2
MaxVersions == 3
MaxDocs == 2
MaxPage == 3
MaxResults == 3
MaxCount == 7

(***************************************************************************)
(* Configuration names and Python values.                                  *)
(***************************************************************************)
None == -1
epoch == 0
ID_FIELD == "_id"
DATE_CREATED == "_created"
LAST_UPDATED == "_updated"
ETAG == "_etag"
LINKS == "_links"
ITEMS == "_items"
VERSION == "_version"
LATEST_VERSION == "_latest_version"
versioned_id_field == "_id_document"
NoDoc == <<>>
NoArg == "<absent>"
EmbeddedBase == 100

(***************************************************************************)
(* Python dict operations.                                                 *)
(***************************************************************************)
Has(d, k) == k \in DOMAIN d
Put(d, k, v) == (k :> v) @@ d
Del(d, ks) == [k \in DOMAIN d \ ks |-> d[k]]
Update(d, e) == e @@ d
Opt(k, v) == IF v = None THEN NoDoc ELSE (k :> v)

(***************************************************************************)
(* Results of a step that may raise: err is "ok", "KeyError", "400", "404".*)
(***************************************************************************)
Raised(e, h) == [err |-> e, heap |-> h, ref |-> 0]
Ok(h, r) == [err |-> "ok", heap |-> h, ref |-> r]

deepcopy(h, r) == Ok(Append(h, h[r]), Len(h) + 1)

(***************************************************************************)
(* Helpers of eve.methods.common, eve.utils and eve.versioning.            *)
(***************************************************************************)
date_created(d) == IF Has(d, DATE_CREATED) THEN d[DATE_CREATED] ELSE epoch
last_updated(d) == IF Has(d, LAST_UPDATED) THEN d[LAST_UPDATED] ELSE epoch

EtagFields ==
    <<"_id", "_created", "_updated", "_etag", "_version", "_latest_version",
      "a", "ref", "user">>

RECURSIVE EtagSum(_, _)
EtagSum(d, i) ==
    IF i > Len(EtagFields) THEN 0
    ELSE (IF Has(d, EtagFields[i]) THEN d[EtagFields[i]] + 1 ELSE 0)
         + 10 * EtagSum(d, i + 1)

\* A digest of the whole document: injective on the documents of the model.
document_etag(d) == EtagSum(d, 1)

document_link(id) == [title |-> "item", href |-> <<"item", id>>]
home_link == [title |-> "home", href |-> <<"home", 0>>]
resource_link == [title |-> "resource", href |-> <<"resource", 0>>]

versioned_fields(resource_def) == resource_def.versioned

resolve_document_version(d, resource_def, latest) ==
    IF ~resource_def.versioning THEN d
    ELSE IF latest = NoDoc
    THEN LET d1 == IF Has(d, VERSION) THEN d ELSE Put(d, VERSION, 1)
         IN Put(d1, LATEST_VERSION, d1[VERSION])
    ELSE IF ~Has(latest, VERSION)
    THEN Put(Put(d, VERSION, 1), LATEST_VERSION, 1)
    ELSE LET d1 == Put(d, LATEST_VERSION, latest[VERSION])
         IN IF Has(d1, VERSION) THEN d1 ELSE Put(d1, VERSION, 1)

diff_document(resource_def, old_doc, new_doc) ==
    [k \in {f \in DOMAIN new_doc :
              ~Has(old_doc, f) \/ new_doc[f] # old_doc[f]} |-> new_doc[k]]

(***************************************************************************)
(* _resolve_media_files: every media field the document carries is         *)
(* replaced by the stored file, or by None when the file is missing.       *)
(***************************************************************************)
_resolve_media_files(d, resource_def, media) ==
    [k \in DOMAIN d |->
        IF k \in resource_def.media_fields
        THEN (IF d[k] \in media THEN EmbeddedBase + d[k] ELSE None)
        ELSE d[k]]

(***************************************************************************)
(* _resolve_embedded_documents: the fields of the list are taken in turn;  *)
(* document[field] raises KeyError when the document lacks the field, the  *)
(* fields before it staying replaced; a related document that is found     *)
(* replaces the reference, one that is not found leaves it.                *)
(***************************************************************************)
find_one_related(related, id) == IF id \in related THEN EmbeddedBase + id ELSE None

\* Lines 448-453: one turn of the loop.
EmbedField(d, field, related) ==
    IF find_one_related(related, d[field]) # None
    THEN Put(d, field, find_one_related(related, d[field]))
    ELSE d

RECURSIVE EmbedFrom(_, _, _, _)
EmbedFrom(d, embedded_fields, related, i) ==
    IF i > Len(embedded_fields) THEN [err |-> "ok", doc |-> d]
    ELSE IF ~Has(d, embedded_fields[i]) THEN [err |-> "KeyError", doc |-> d]
    ELSE EmbedFrom(EmbedField(d, embedded_fields[i], related),
                   embedded_fields, related, i + 1)

_resolve_embedded_documents(d, embedded_fields, related) ==
    EmbedFrom(d, embedded_fields, related, 1)

(***************************************************************************)
(* _build_response_document mutates the document at `document` in place.   *)
(* latest_doc = 0 stands for the default latest_doc=None.                  *)
(***************************************************************************)
StampDates(d) ==
    Put(Put(d, DATE_CREATED, date_created(d)), LAST_UPDATED, last_updated(d))

StampEtag(d, cfg) ==
    IF cfg.IF_MATCH THEN Put(d, ETAG, document_etag(d)) ELSE d

AttachLink(d, cfg) ==
    IF cfg.hateoas
    THEN Put(d, LINKS, [self |-> document_link(d[cfg.item_lookup_field])])
    ELSE d

\* Lines 329-344, on the document d that lines 321-327 have stamped.
BuildStamped(d, cfg, embedded_fields, latest, dt) ==
    IF cfg.hateoas /\ ~Has(d, cfg.item_lookup_field)
    THEN [err |-> "KeyError", doc |-> d]
    ELSE _resolve_embedded_documents(
             _resolve_media_files(
                 resolve_document_version(AttachLink(d, cfg), cfg, latest),
                 cfg, dt.media),
             embedded_fields, dt.related)

StoreBuilt(h, document, e) ==
    [err |-> e.err, heap |-> [h EXCEPT ![document] = e.doc],
     ref |-> IF e.err = "ok" THEN document ELSE 0]

_build_response_document(h, document, cfg, embedded_fields, latest_doc, dt) ==
    StoreBuilt(h, document,
               BuildStamped(StampEtag(StampDates(h[document]), cfg), cfg,
                            embedded_fields,
                            IF latest_doc = 0 THEN NoDoc ELSE h[latest_doc],
                            dt))

(***************************************************************************)
(* _synthesize_previous_version: a deep copy of the latest document, the   *)
(* delta re-keyed IN PLACE from the versioned-id field to the id field,    *)
(* the versioned fields of the document removed from the copy, the delta   *)
(* merged into it.                                                         *)
(***************************************************************************)
Rekey(delta) ==
    Del(Put(delta, ID_FIELD, delta[versioned_id_field]), {versioned_id_field})

\* Lines 357-369 on the document itself: no copy is made.
SynthesizeInPlace(h, document, delta, resource_def) ==
    IF ~Has(h[delta], versioned_id_field)
    THEN Raised("KeyError", h)
    ELSE Ok([h EXCEPT
               ![delta] = Rekey(@),
               ![document] =
                   Update(Del(@, DOMAIN @ \cap versioned_fields(resource_def)),
                          Rekey(h[delta]))],
            document)

\* Lines 357-369, on the copy c that line 355 has made: old_doc is c.ref.
SynthesizeInto(c, document, delta, resource_def) ==
    IF ~Has(c.heap[delta], versioned_id_field)
    THEN Raised("KeyError", c.heap)
    ELSE Ok([c.heap EXCEPT
               ![delta] = Rekey(@),
               ![c.ref] =
                   Update(Del(@, DOMAIN c.heap[document]
                                 \cap versioned_fields(resource_def)),
                          Rekey(c.heap[delta]))],
            c.ref)

_synthesize_previous_version(h, document, delta, resource_def) ==
    SynthesizeInto(deepcopy(h, document), document, delta, resource_def)

(***************************************************************************)
(* _resolve_embedded_fields.  The request's clause is one of               *)
(*   [kind |-> "none"]       no (or an empty) `embedded` argument,         *)
(*   [kind |-> "malformed"]  json.loads raises ValueError,                 *)
(*   [kind |-> "nondict"]    valid JSON that is no object (no .items()),   *)
(*   [kind |-> "dict", items |-> field -> JSON token].                     *)
(* Python's `v == 1` holds of the JSON values 1, 1.0 and true.             *)
(* list(set(...) | set(...)) yields the names in the iteration order of    *)
(* the set, which the interpreter's string hashing decides: `order` is     *)
(* that order, a sequence of the field names without repetition.           *)
(***************************************************************************)
PyEqualsOne(token) == token \in {"1", "1.0", "true"}

client_embedding(clause) ==
    {k \in DOMAIN clause.items : PyEqualsOne(clause.items[k])}

\* Any declared relation, embeddable or not.
EmbeddableAnyRelation(resource_def, field) ==
    /\ field \in DOMAIN resource_def.schema
    /\ resource_def.schema[field].data_relation

Embeddable(resource_def, field) ==
    /\ field \in DOMAIN resource_def.schema
    /\ resource_def.schema[field].data_relation
    /\ resource_def.schema[field].embeddable

\* Lines 406-416, on the list of lines 402-404.
EnabledFields(resource_def, embedded_fields) ==
    LET Enabled(f) == Embeddable(resource_def, f)
    IN  SelectSeq(embedded_fields, Enabled)

\* list(s), with the iteration order of the interpreter.
ListOfSet(s, order) ==
    LET Member(f) == f \in s
    IN  SelectSeq(order, Member)

_resolve_embedded_fields(resource_def, rq, order) ==
    IF rq.embedded.kind \in {"malformed", "nondict"}
    THEN [err |-> "400", fields |-> <<>>]
    ELSE [err |-> "ok",
          fields |-> EnabledFields(
              resource_def,
              ListOfSet(resource_def.embedded_fields
                        \cup (IF rq.embedded.kind = "dict"
                              THEN client_embedding(rq.embedded) ELSE {}),
                        order))]

(***************************************************************************)
(* _pagination_links.  querydef(max_results, where, sort, page) is the     *)
(* pair of the page size and the page the link points to.                  *)
(***************************************************************************)
page_link(title, rq, page) ==
    [title |-> title, href |-> <<"resource", rq.max_results, page>>]

\* The integer division of Python 2, rounded before the ceil call.
LastPageTruncated(documents_count, max_results) ==
    documents_count \div max_results

\* int(math.ceil(documents_count / float(max_results)))
last_page(documents_count, max_results) ==
    IF documents_count % max_results = 0
    THEN documents_count \div max_results
    ELSE documents_count \div max_results + 1

NextAndLast(resource_def, rq, documents_count) ==
    IF rq.page * rq.max_results < documents_count
    THEN [next |-> page_link("next page", rq, rq.page + 1),
          last |-> page_link("last page", rq,
                             last_page(documents_count, rq.max_results))]
    ELSE NoDoc

_pagination_links(resource_def, rq, documents_count) ==
    LET _links == [parent |-> home_link, self |-> resource_link]
    IN  IF documents_count # 0 /\ resource_def.pagination
        THEN _links
             @@ NextAndLast(resource_def, rq, documents_count)
             @@ (IF rq.page > 1
                 THEN [prev |-> page_link("previous page", rq, rq.page - 1)]
                 ELSE NoDoc)
        ELSE _links

(***************************************************************************)
(* The storage collaborator: app.data.find, find_one and is_empty.         *)
(***************************************************************************)
Matches(d, lk) == \A k \in DOMAIN lk : Has(d, k) /\ d[k] = lk[k]

ModifiedSince(d, rq) ==
    rq.if_modified_since = None
    \/ (Has(d, LAST_UPDATED) /\ d[LAST_UPDATED] > rq.if_modified_since)

RECURSIVE Insert(_, _)
Insert(d, sorted) ==
    IF sorted = <<>> THEN <<d>>
    ELSE IF d[VERSION] < Head(sorted)[VERSION] THEN <<d>> \o sorted
    ELSE <<Head(sorted)>> \o Insert(d, Tail(sorted))

RECURSIVE SortByVersion(_)
SortByVersion(s) ==
    IF s = <<>> THEN <<>> ELSE Insert(Head(s), SortByVersion(Tail(s)))

Page(s, rq) ==
    LET skip == (rq.page - 1) * rq.max_results
        last == IF skip + rq.max_results < Len(s)
                THEN skip + rq.max_results ELSE Len(s)
    IN  IF skip >= Len(s) THEN <<>> ELSE SubSeq(s, skip + 1, last)

find(collection, rq, lk) ==
    LET Wanted(d) == Matches(d, lk) /\ ModifiedSince(d, rq)
        found == SelectSeq(collection, Wanted)
        ordered == IF rq.sort = VERSION THEN SortByVersion(found) ELSE found
    IN  [docs |-> Page(ordered, rq), count |-> Len(found)]

find_one(collection, lk) ==
    LET Wanted(d) == Matches(d, lk)
        found == SelectSeq(collection, Wanted)
    IN  IF found = <<>> THEN NoDoc ELSE Head(found)

is_empty(collection) == collection = <<>>

(***************************************************************************)
(* The registered callbacks: "none" leaves the documents alone, "touch"    *)
(* sets the last-updated field of every document it is handed.             *)
(***************************************************************************)
HookTime == MaxTime + 1
Callback(d, hk) == IF hk = "touch" THEN Put(d, LAST_UPDATED, HookTime) ELSE d

(***************************************************************************)
(* What a handler hands back.                                              *)
(***************************************************************************)
Return(response, last_modified, etag, status) ==
    [kind |-> "return", response |-> response, last_modified |-> last_modified,
     etag |-> etag, status |-> status]
Abort(status) == [kind |-> "abort", status |-> status]
Raise(exc) == [kind |-> "raise", status |-> 500, exc |-> exc]
Failure(err) ==
    IF err = "400" THEN Abort(400)
    ELSE IF err = "404" THEN Abort(404) ELSE Raise(err)

EmptyBody == [kind |-> "empty"]
ListBody(documents) == [kind |-> "list", items |-> documents]
EnvelopeBody(documents, links) ==
    [kind |-> "envelope", items |-> documents, links |-> links]
DocBody(d) == [kind |-> "doc", doc |-> d]

Outcome(r, h, l, c) == [ret |-> r, heap |-> h, locals |-> l, calls |-> c]

Range(s) == {s[i] : i \in 1..Len(s)}

Deref(h, refs) == [i \in 1..Len(refs) |-> h[refs[i]]]

(***************************************************************************)
(* get: the collection fetch.  Each stage is handed what the lines before  *)
(* it have computed; x holds the arguments of the call.                    *)
(* py is the interpreter running the handler: py.order the iteration order *)
(* of its sets of field names, py.optimize whether it runs with -O, which  *)
(* compiles assert statements away.                                        *)
(***************************************************************************)
Context(cfg, rq, lk, dt, hk, py) ==
    [cfg |-> cfg, rq |-> rq, lk |-> lk, dt |-> dt, hk |-> hk, py |-> py]

\* app.data.find: the cursor, with the `extra` attribute of the data layer
\* when it has one.
Cursor(dt, rq, lk) ==
    IF Has(dt, "cursor_extra")
    THEN find(dt.collection, rq, lk) @@ [extra |-> dt.cursor_extra]
    ELSE find(dt.collection, rq, lk)

\* The loop of lines 116-122 stops at the first build that raises; ref is
\* the number of calls of _build_response_document it has made, so that
\* last_update has by then followed the ref - 1 documents before it.
RECURSIVE BuildAll(_, _, _, _, _)
BuildNext(b, i, cfg, embedded_fields, dt) ==
    IF b.err # "ok" THEN [b EXCEPT !.ref = i]
    ELSE BuildAll(b.heap, i + 1, cfg, embedded_fields, dt)

\* for document in cursor: _build_response_document(...); documents.append
BuildAll(h, i, cfg, embedded_fields, dt) ==
    IF i > Len(h) THEN Ok(h, Len(h))
    ELSE BuildNext(_build_response_document(h, i, cfg, embedded_fields, 0, dt),
                   i, cfg, embedded_fields, dt)

RECURSIVE MaxUpdated(_, _)
LaterOf(updated, rest) == IF updated > rest THEN updated ELSE rest
MaxUpdated(docs, i) ==
    IF i > Len(docs) THEN epoch
    ELSE LaterOf(docs[i][LAST_UPDATED], MaxUpdated(docs, i + 1))

\* Lines 93-109 without the emptiness check of line 102.
PreflightIgnoringEmpty(rq, lk, dt) ==
    IF rq.if_modified_since = None
    THEN [not_modified |-> FALSE, calls |-> <<>>]
    ELSE IF find(dt.collection, [rq EXCEPT !.max_results = 1], lk).count # 0
    THEN [not_modified |-> FALSE, calls |-> <<"find">>]
    ELSE [not_modified |-> TRUE, calls |-> <<"find", "is_empty">>]

\* Lines 93-109: the probe of a request that carries if-modified-since.
Preflight(rq, lk, dt) ==
    IF rq.if_modified_since = None
    THEN [not_modified |-> FALSE, calls |-> <<>>]
    ELSE IF find(dt.collection, [rq EXCEPT !.max_results = 1], lk).count # 0
    THEN [not_modified |-> FALSE, calls |-> <<"find">>]
    ELSE [not_modified |-> ~is_empty(dt.collection),
          calls |-> <<"find", "is_empty">>]

\* Lines 132-133: both callbacks are handed every document.
Notified(documents, hk) ==
    [i \in 1..Len(documents) |-> Callback(Callback(documents[i], hk), hk)]

\* Line 125.
LastModified(last_update) == IF last_update > epoch THEN last_update ELSE None

\* Lines 135-140.
GetResponse(x, documents, count) ==
    IF x.cfg.hateoas
    THEN EnvelopeBody(documents,
                      _pagination_links(
                          x.cfg, [x.rq EXCEPT !.if_modified_since = None], count))
    ELSE ListBody(documents)

\* The callable an extension hangs on the cursor: it adds its data to the
\* response, a key to the envelope or an element to the list.
extra(response) ==
    IF response.kind = "envelope"
    THEN response @@ [other |-> [_extra |-> 1]]
    ELSE [response EXCEPT !.items = Append(@, [_extra |-> 1])]

\* Lines 145-146.
WithExtra(cursor, response) ==
    IF Has(cursor, "extra") THEN extra(response) ELSE response

\* The calls of lines 116-146: one build per turn of the loop, the two
\* callbacks, the extra of the cursor.
BuildCalls(n) == [i \in 1..n |-> "build"]
HookAndExtraCalls(cursor) ==
    <<"on_fetch_resource", "on_fetch_resource_">>
    \o (IF Has(cursor, "extra") THEN <<"cursor.extra">> ELSE <<>>)

\* Lines 124-148 with last_modified computed after the callbacks have run.
GetBuiltAfterHooks(x, c, cursor, b) ==
    IF b.err # "ok"
    THEN Outcome(Failure(b.err), b.heap,
                 [last_update |-> MaxUpdated(SubSeq(b.heap, 1, b.ref - 1), 1)],
                 c \o BuildCalls(b.ref))
    ELSE Outcome(Return(WithExtra(cursor,
                                  GetResponse(x, Notified(b.heap, x.hk),
                                              cursor.count)),
                        LastModified(MaxUpdated(Notified(b.heap, x.hk), 1)),
                        None, 200),
                 Notified(b.heap, x.hk),
                 [last_update |-> MaxUpdated(Notified(b.heap, x.hk), 1)],
                 c \o BuildCalls(b.ref) \o HookAndExtraCalls(cursor))

\* Lines 124-148, after the loop of lines 116-122 has built b.
GetBuilt(x, c, cursor, b) ==
    IF b.err # "ok"
    THEN Outcome(Failure(b.err), b.heap,
                 [last_update |-> MaxUpdated(SubSeq(b.heap, 1, b.ref - 1), 1)],
                 c \o BuildCalls(b.ref))
    ELSE Outcome(Return(WithExtra(cursor,
                                  GetResponse(x, Notified(b.heap, x.hk),
                                              cursor.count)),
                        LastModified(MaxUpdated(b.heap, 1)), None, 200),
                 Notified(b.heap, x.hk),
                 [last_update |-> MaxUpdated(b.heap, 1)],
                 c \o BuildCalls(b.ref) \o HookAndExtraCalls(cursor))

\* Lines 112-122, on the cursor of the full query.
GetFound(x, ef, c, cursor) ==
    GetBuilt(x, c \o <<"find">>, cursor,
             BuildAll(cursor.docs, 1, x.cfg, ef.fields, x.dt))

\* Lines 93-114, after the embedded fields ef and the probe pre.
GetProbed(x, ef, pre) ==
    IF ef.err # "ok" THEN Outcome(Failure(ef.err), <<>>, NoDoc, <<>>)
    ELSE IF pre.not_modified
    THEN Outcome(Return(EmptyBody, None, None, 304), <<>>, NoDoc, pre.calls)
    ELSE GetFound(x, ef, pre.calls,
                  Cursor(x.dt, [x.rq EXCEPT !.if_modified_since = None], x.lk))

get(cfg, rq, lk, dt, hk, py) ==
    GetProbed(Context(cfg, rq, lk, dt, hk, py),
              _resolve_embedded_fields(cfg, rq, py.order),
              Preflight(rq, lk, dt))

(***************************************************************************)
(* getitem: the item fetch.                                                *)
(*                                                                         *)
(* int(version): Decimal[n] is str(n); IntOf is what int() makes of the     *)
(* selectors it accepts, a sign, surrounding blanks and leading zeros       *)
(* included; on the selectors of NotIntegers it raises ValueError.  The    *)
(* model has no other selector.                                            *)
(***************************************************************************)
Decimal == <<"1", "2", "3", "4", "5", "6", "7", "8", "9", "10">>

IntOf ==
    [s \in {"-1", "0", "+1", " 1", "01"} \cup Range(Decimal) |->
       CASE s = "-1" -> 0 - 1
         [] s = "0" -> 0
         [] s \in {"+1", " 1", "01"} -> 1
         [] OTHER -> CHOOSE n \in 1..Len(Decimal) : Decimal[n] = s]

NotIntegers == {"abc", "one", "1.5", ""}

\* Lines 212-218: int(version) and `assert version > 0`; the abort(400) of
\* the except clause when this is FALSE.  Under -O there is no assert.
IsPositiveInt(version, py) ==
    /\ version \notin NotIntegers
    /\ py.optimize \/ IntOf[version] > 0

\* lookup[versioned_id_field()] = lookup[ID_FIELD]; del lookup[ID_FIELD]
RekeyLookup(lk) ==
    Del(Put(lk, versioned_id_field, lk[ID_FIELD]), {ID_FIELD})

Selection(err, h, document, return_all_versions, c) ==
    [err |-> err, heap |-> h, document |-> document,
     return_all_versions |-> return_all_versions, calls |-> c]

\* Lines 229-230: document is rebound when the synthesis returns.
SelectSynthesized(document, s) ==
    Selection(s.err, s.heap, IF s.err = "ok" THEN s.ref ELSE document, FALSE,
              <<"find_one_version", "synthesize">>)

\* Lines 226-230, on the delta record find_one has returned.
SelectDelta(h, document, cfg, delta) ==
    IF delta = NoDoc
    THEN Selection("404", h, document, FALSE, <<"find_one_version">>)
    ELSE SelectSynthesized(
             document,
             _synthesize_previous_version(Append(h, delta), document,
                                          Len(h) + 1, cfg))

\* Line 226 calls app.data.find_one(resource + VERSIONS, **lookup), without
\* the request argument the calls of lines 198 and 448 pass.  A data layer
\* whose find_one is find_one(resource, req, **lookup) raises TypeError on
\* that call, before it looks anything up; only one whose find_one gives
\* req a default answers it.
RequestOptional(dt) == Has(dt, "req_optional")

\* Lines 206-230: the version selector.
SelectVersion(h, document, cfg, rq, lk, dt, py) ==
    IF ~cfg.versioning THEN Selection("ok", h, document, FALSE, <<>>)
    ELSE IF rq.version \in {"all", "diffs"}
    THEN Selection("ok", h, document, TRUE, <<>>)
    ELSE IF rq.version = NoArg THEN Selection("ok", h, document, FALSE, <<>>)
    ELSE IF ~IsPositiveInt(rq.version, py)
    THEN Selection("400", h, document, FALSE, <<>>)
    ELSE IF ~Has(lk, ID_FIELD)
    THEN Selection("KeyError", h, document, FALSE, <<>>)
    ELSE IF ~RequestOptional(dt)
    THEN Selection("TypeError", h, document, FALSE, <<>>)
    ELSE SelectDelta(h, document, cfg,
                     find_one(dt.versions,
                              Put(RekeyLookup(lk), VERSION, IntOf[rq.version])))

\* A diff against the first synthesized document instead of the preceding one.
DiffStepStale(st, env, i, synthesized) ==
    IF i = 1
    THEN [st EXCEPT !.documents = Append(@, synthesized),
                    !.last_document = synthesized]
    ELSE [st EXCEPT
            !.heap = Append(@, diff_document(env.cfg, @[st.last_document],
                                             @[synthesized])),
            !.documents = Append(@, Len(st.heap) + 1)]

\* Lines 268-274: one turn of the loop in diffs mode.
DiffStep(st, env, i, synthesized) ==
    IF i = 1
    THEN [st EXCEPT !.documents = Append(@, synthesized),
                    !.last_document = synthesized]
    ELSE [st EXCEPT
            !.heap = Append(@, diff_document(env.cfg, @[st.last_document],
                                             @[synthesized])),
            !.documents = Append(@, Len(st.heap) + 1),
            !.last_document = synthesized]

\* Lines 268-276.
Collect(st, env, i, synthesized) ==
    IF env.diffs THEN DiffStep(st, env, i, synthesized)
    ELSE [st EXCEPT !.documents = Append(@, synthesized)]

\* Lines 263-276: the loop over the cursor of delta records.  The local
\* `document` is bound to the record by the for statement and rebound to
\* the synthesized document when line 264 returns.
RECURSIVE VersionLoop(_, _, _, _)
LoopBuilt(st, env, deltas, i, synthesized, b) ==
    IF b.err # "ok"
    THEN [st EXCEPT !.err = b.err, !.heap = b.heap,
                    !.document = synthesized,
                    !.synthesized = Append(@, synthesized),
                    !.calls = @ \o <<"synthesize", "build">>]
    ELSE VersionLoop(
             Collect([st EXCEPT !.heap = b.heap,
                                !.document = synthesized,
                                !.synthesized = Append(@, synthesized),
                                !.calls = @ \o <<"synthesize", "build">>],
                     env, i, synthesized),
             env, deltas, i + 1)

LoopSynthesized(st, env, deltas, i, s) ==
    IF s.err # "ok"
    THEN [st EXCEPT !.err = s.err, !.heap = s.heap, !.document = deltas[i],
                    !.calls = @ \o <<"synthesize">>]
    ELSE LoopBuilt(st, env, deltas, i, s.ref,
                   _build_response_document(s.heap, s.ref, env.cfg, env.fields,
                                            env.latest_doc, env.dt))

VersionLoop(st, env, deltas, i) ==
    IF i > Len(deltas) THEN st
    ELSE LoopSynthesized(st, env, deltas, i,
                         _synthesize_previous_version(
                             st.heap, env.latest_doc, deltas[i], env.cfg))

LoopState(err, h, c, document) ==
    [err |-> err, heap |-> h, documents |-> <<>>, last_document |-> 0,
     synthesized |-> <<>>, calls |-> c, document |-> document]

\* Lines 261-276, on the cursor find has returned.
LoopOver(h, env, cursor) ==
    VersionLoop(LoopState("ok", h \o cursor.docs, <<"find_versions">>,
                          env.document),
                env,
                [i \in 1..Len(cursor.docs) |-> Len(h) + i], 1)

\* Lines 252-276.
AllVersions(h, latest_doc, document, cfg, rq, lk, dt, fields) ==
    IF ~Has(lk, ID_FIELD) THEN LoopState("KeyError", h, <<>>, document)
    ELSE LoopOver(h,
                  [latest_doc |-> latest_doc, document |-> document,
                   cfg |-> cfg, fields |-> fields,
                   dt |-> dt, diffs |-> rq.version = "diffs"],
                  find(dt.versions,
                       IF rq.version = "diffs" THEN [rq EXCEPT !.sort = VERSION]
                       ELSE rq,
                       RekeyLookup(lk)))

\* Lines 298-304.
ExtraLinks(d) ==
    Put(d, LINKS,
        [collection |-> resource_link, parent |-> home_link]
        @@ (IF Has(d, LINKS) THEN d[LINKS] ELSE NoDoc))

\* The conditional checks without the if-none-match check.
ConditionalWithoutEtag(d, cfg, rq) ==
    IF rq.if_modified_since # None
       /\ d[LAST_UPDATED] <= rq.if_modified_since
    THEN (IF Has(d, ETAG)
          THEN Return(EmptyBody, d[LAST_UPDATED], d[ETAG], 304)
          ELSE Raise("KeyError"))
    ELSE [kind |-> "pass"]

\* Lines 234-250: the conditional checks on the enriched document.
\* "pass" when neither fires.
Conditional(d, cfg, rq) ==
    IF cfg.IF_MATCH /\ rq.if_none_match # None /\ d[ETAG] = rq.if_none_match
    THEN Return(EmptyBody, d[LAST_UPDATED], d[ETAG], 304)
    ELSE IF rq.if_modified_since # None
            /\ d[LAST_UPDATED] <= rq.if_modified_since
    THEN (IF Has(d, ETAG)
          THEN Return(EmptyBody, d[LAST_UPDATED], d[ETAG], 304)
          ELSE Raise("KeyError"))
    ELSE [kind |-> "pass"]

ItemLocals(latest_doc, document) ==
    [latest_doc |-> latest_doc, document |-> document, synthesized |-> <<>>,
     last_modified |-> None, etag |-> None, built |-> FALSE]

\* Lines 289-304: the callbacks, then the extra links.
Respond(d, x) ==
    IF x.cfg.hateoas THEN ExtraLinks(Callback(Callback(d, x.hk), x.hk))
    ELSE Callback(Callback(d, x.hk), x.hk)

\* Lines 284-306: the single document.  The arguments of the first
\* callback read document[config.ID_FIELD].
ItemSingle(x, l, c, h, document) ==
    IF ~Has(h[document], ID_FIELD) THEN Outcome(Raise("KeyError"), h, l, c)
    ELSE
    Outcome(Return(DocBody(Respond(h[document], x)), l.last_modified, l.etag,
                   200),
            [h EXCEPT ![document] = Respond(@, x)], l,
            c \o <<"on_fetch_item", "on_fetch_item_">>)

\* Lines 280-283 and 298-304.
VersionsBody(x, documents) ==
    IF x.cfg.hateoas
    THEN EnvelopeBody(documents,
                      [collection |-> resource_link, parent |-> home_link])
    ELSE ListBody(documents)

\* Lines 278-306, after the loop a over the versions.
ItemVersions(x, l, c, a) ==
    IF a.err # "ok"
    THEN Outcome(Failure(a.err), a.heap,
                 [l EXCEPT !.synthesized = a.synthesized,
                           !.document = a.document],
                 c \o a.calls)
    ELSE Outcome(Return(VersionsBody(x, Deref(a.heap, a.documents)),
                        l.last_modified, l.etag, 200),
                 a.heap,
                 [l EXCEPT !.synthesized = a.synthesized,
                           !.document = a.document],
                 c \o a.calls)

\* Lines 237-306, after the conditional checks cond.
ItemChecked(x, ef, l, c, sel, h, cond) ==
    IF cond.kind # "pass" THEN Outcome(cond, h, l, c)
    ELSE IF sel.return_all_versions
    THEN ItemVersions(x, l, c,
                      AllVersions(h, l.latest_doc, sel.document, x.cfg, x.rq,
                                  x.lk, x.dt, ef.fields))
    ELSE ItemSingle(x, l, c, h, sel.document)

\* Lines 234-250, after the enrichment b of line 232.
ItemBuilt(x, ef, l, c, sel, b) ==
    IF b.err # "ok" THEN Outcome(Failure(b.err), b.heap, l, c)
    ELSE ItemChecked(
             x, ef,
             [l EXCEPT !.last_modified = b.heap[sel.document][LAST_UPDATED],
                       !.etag = IF x.cfg.IF_MATCH
                                THEN b.heap[sel.document][ETAG] ELSE None,
                       !.built = TRUE],
             c, sel, b.heap, Conditional(b.heap[sel.document], x.cfg, x.rq))

\* Line 232, after the version selection sel.
ItemSelected(x, ef, latest_doc, sel) ==
    IF sel.err # "ok"
    THEN Outcome(Failure(sel.err), sel.heap,
                 ItemLocals(latest_doc, sel.document),
                 <<"find_one">> \o sel.calls)
    ELSE ItemBuilt(x, ef, ItemLocals(latest_doc, sel.document),
                   <<"find_one">> \o sel.calls \o <<"build">>, sel,
                   _build_response_document(sel.heap, sel.document, x.cfg,
                                            ef.fields, latest_doc, x.dt))

\* Lines 206-230, after latest_doc = copy.deepcopy(document): c.
ItemCopied(x, ef, c) ==
    ItemSelected(x, ef, c.ref,
                 SelectVersion(c.heap, 1, x.cfg, x.rq, x.lk, x.dt, x.py))

\* Lines 199-205 and 308, on what find_one has returned.
ItemFetched(x, ef, found) ==
    IF ef.err # "ok" THEN Outcome(Failure(ef.err), <<>>, NoDoc, <<>>)
    ELSE IF found = NoDoc
    THEN Outcome(Abort(404), <<>>, NoDoc, <<"find_one">>)
    ELSE ItemCopied(x, ef, deepcopy(<<found>>, 1))

getitem(cfg, rq, lk, dt, hk, py) ==
    ItemFetched(Context(cfg, rq, lk, dt, hk, py),
                _resolve_embedded_fields(cfg, rq, py.order),
                find_one(dt.collection, lk))

(***************************************************************************)
(* The inputs of the model.                                                *)
(***************************************************************************)
Times == 1..MaxTime
MaybeTimes == {None} \cup Times

Schema(relation, embeddable) ==
    [a |-> [data_relation |-> FALSE, embeddable |-> FALSE],
     ref |-> [data_relation |-> FALSE, embeddable |-> FALSE],
     user |-> [data_relation |-> relation, embeddable |-> embeddable]]

Settings(if_match, hateoas, versioning, pagination, defaults, schema) ==
    [IF_MATCH |-> if_match, hateoas |-> hateoas, versioning |-> versioning,
     pagination |-> pagination, item_lookup_field |-> ID_FIELD,
     embedded_fields |-> defaults, schema |-> schema,
     versioned |-> {"a", LAST_UPDATED}, media_fields |-> {}]

Request(ims, inm, embedded, page, max_results, version) ==
    [if_modified_since |-> ims, if_none_match |-> inm, embedded |-> embedded,
     page |-> page, max_results |-> max_results, sort |-> "",
     version |-> version]

NoEmbedding == [kind |-> "none"]

\* The stored item: identity 1, looked up by "_id" or by the field "ref".
Item(updated, etag, version, user) ==
    [_id |-> 1, ref |-> 5, a |-> 2]
    @@ Opt(LAST_UPDATED, updated) @@ Opt(ETAG, etag)
    @@ Opt(VERSION, version) @@ Opt("user", user)

\* The delta record of version v; `lacking` is the version without field a.
Delta(v, lacking) ==
    [_id |-> 5 + v, _id_document |-> 1, _version |-> v,
     _updated |-> IF v <= MaxTime THEN v ELSE MaxTime]
    @@ (IF v = lacking THEN NoDoc ELSE [a |-> v])

Reverse(s) == [i \in 1..Len(s) |-> s[Len(s) + 1 - i]]

VersionStores(n) ==
    LET ascending == {[v \in 1..n |-> Delta(v, k)] : k \in 0..n}
    IN  ascending \cup {Reverse(s) : s \in ascending}

Storage(collection, versions) ==
    [collection |-> collection, versions |-> versions, related |-> {1},
     media |-> {}]

VersionArgs ==
    {NoArg, "all", "diffs", "0", "-1", "abc"}
    \cup {Decimal[n] : n \in 1..MaxVersions + 1}

\* The interpreters: every iteration order of the field names, with and
\* without -O.
FieldOrders ==
    {<<"a", "ref", "user">>, <<"a", "user", "ref">>, <<"ref", "a", "user">>,
     <<"ref", "user", "a">>, <<"user", "a", "ref">>, <<"user", "ref", "a">>}
Runtimes == [optimize : BOOLEAN, order : FieldOrders]

\* The handlers see the order through the list of lines 402-404 alone: one
\* interpreter for each list it can be, Runtimes without the interpreters
\* that give a handler the list another one gives it.
OrdersOf(cfg, rq) ==
    {CHOOSE order \in FieldOrders :
         _resolve_embedded_fields(cfg, rq, order) = fields :
     fields \in {_resolve_embedded_fields(cfg, rq, order) :
                   order \in FieldOrders}}
RuntimesOf(cfg, rq) == [optimize : BOOLEAN, order : OrdersOf(cfg, rq)]

\* The data layers: find_one with a required or a defaulted request.
DataLayers == {NoDoc, [req_optional |-> TRUE]}

Lookups == {[_id |-> 1], [_id |-> 2], [ref |-> 5]}

\* The ETags a client may hold: none, one that matches no document, the
\* one of the stored item and the one of its first version.
KnownEtags(item, versions) ==
    {None, 1, document_etag(StampDates(item))}
    \cup {document_etag(StampDates(
              Update(Del(item, {"a", LAST_UPDATED}), Rekey(versions[i])))) :
          i \in {j \in 1..Len(versions) : versions[j][VERSION] = 1}}

Idle ==
    /\ pc = "start"
    /\ heap = <<>>
    /\ locals = NoDoc
    /\ calls = <<>>
    /\ ret = [kind |-> "none"]

(***************************************************************************)
(* The item fetch: conditional requests and the version selector.          *)
(***************************************************************************)
Init ==
    /\ Idle
    /\ \E n \in 0..MaxVersions, updated \in MaybeTimes, etag \in {None, 8},
          layer \in DataLayers :
         /\ data = Storage(<<Item(updated, etag, IF n = 0 THEN None ELSE n, None)>>,
                           [v \in 1..n |-> Delta(v, 0)]) @@ layer
         /\ \E ims \in MaybeTimes, version \in VersionArgs,
               inm \in KnownEtags(data.collection[1], data.versions) :
              req = Request(ims, inm, NoEmbedding, 1, 25, version)
    /\ \E if_match, hateoas, versioning \in BOOLEAN :
         config = Settings(if_match, hateoas, versioning, TRUE, {},
                           Schema(TRUE, TRUE))
    /\ lookup \in Lookups
    /\ hooks = "touch"

GetItem ==
    /\ pc = "start"
    /\ \E py \in RuntimesOf(config, req) :
       LET o == getitem(config, req, lookup, data, hooks, py)
       IN  /\ ret' = o.ret
           /\ heap' = o.heap
           /\ locals' = o.locals
           /\ calls' = o.calls
    /\ pc' = "done"
    /\ UNCHANGED <<config, req, lookup, data, hooks>>

Next == GetItem

Spec == Init /\ [][Next]_vars

(***************************************************************************)
(* The item fetch over richer version stores: 'all', 'diffs', one version. *)
(***************************************************************************)
InitVersions ==
    /\ Idle
    /\ \E n \in 0..MaxVersions, updated \in MaybeTimes :
         \E versions \in VersionStores(n), layer \in DataLayers :
           data = Storage(<<Item(updated, None, IF n = 0 THEN None ELSE n, None)>>,
                          versions) @@ layer
    /\ \E ims \in MaybeTimes,
          version \in {"all", "diffs"}
                      \cup {Decimal[n] : n \in 1..MaxVersions} :
         req = Request(ims, None, NoEmbedding, 1, 25, version)
    /\ \E if_match, hateoas \in BOOLEAN :
         config = Settings(if_match, hateoas, TRUE, TRUE, {}, Schema(TRUE, TRUE))
    /\ lookup \in {[_id |-> 1], [ref |-> 5]}
    /\ hooks = "touch"

SpecVersions == InitVersions /\ [][Next]_vars

(***************************************************************************)
(* Properties of the item fetch.                                           *)
(***************************************************************************)
Done == pc = "done"
ItemFound == find_one(data.collection, lookup) # NoDoc
\* The handler got as far as the conditional checks of lines 234-250.
Built == Done /\ locals # NoDoc /\ locals.built
HookCalls == {"on_fetch_item", "on_fetch_item_", "on_fetch_resource",
              "on_fetch_resource_"}
EtagCheckFired ==
    config.IF_MATCH /\ req.if_none_match # None
    /\ locals.etag = req.if_none_match

\* C2: getitem, a found document, if-modified-since present, the
\* if-none-match check not fired and last-modified <= if-modified-since:
\* the call returns 304 with an empty body, with conditional matching
\* enabled or not, and never ends in an unhandled error.
C2_NotModifiedSince ==
    (/\ Built
     /\ req.if_modified_since # None
     /\ ~EtagCheckFired
     /\ locals.last_modified <= req.if_modified_since)
    => (ret.kind = "return" /\ ret.status = 304 /\ ret.response = EmptyBody)

\* C3: getitem with conditional matching enabled and if-none-match equal
\* to the enriched document's ETag returns 304 with an empty body and with
\* etag and last-modified taken from the document, whatever
\* if-modified-since is, and before any on_fetch_item callback is invoked.
C3_EtagMatch ==
    (Built /\ config.IF_MATCH /\ req.if_none_match # None
     /\ locals.etag = req.if_none_match)
    => /\ ret = Return(EmptyBody, heap[locals.document][LAST_UPDATED],
                       heap[locals.document][ETAG], 304)
       /\ ret.etag = locals.etag /\ ret.last_modified = locals.last_modified
       /\ ret.etag # None /\ ret.last_modified # None
       /\ Range(calls) \cap HookCalls = {}

\* The ETag matches although if-modified-since is older than the document.
C3_Witness ==
    /\ Built /\ config.IF_MATCH /\ req.if_none_match # None
    /\ locals.etag = req.if_none_match
    /\ heap[locals.document][ETAG] = req.if_none_match
    /\ req.if_modified_since # None
    /\ heap[locals.document][LAST_UPDATED] > req.if_modified_since
    /\ ret.status = 304

HasDelta(version) ==
    \E i \in 1..Len(data.versions) :
        /\ data.versions[i][versioned_id_field]
             = find_one(data.collection, lookup)[ID_FIELD]
        /\ data.versions[i][VERSION] = version

\* The selector reads as an integer greater than 0.
PositiveSelector ==
    req.version \in DOMAIN IntOf /\ IntOf[req.version] > 0

\* C4: getitem, versioning enabled, item found: a selector that is neither
\* 'all', 'diffs' nor a positive integer ends with 400; a positive integer
\* whose delta record is not found ends with 404; neither enriches, checks
\* a condition or calls a callback.  An item not found ends with 404, and
\* with versioning disabled the selector is ignored.
C4_VersionSelector ==
    Done =>
    /\ (ItemFound /\ config.versioning
        /\ req.version \notin {NoArg, "all", "diffs"}
        /\ ~PositiveSelector)
       => (ret = Abort(400) /\ calls = <<"find_one">>)
    /\ (ItemFound /\ config.versioning /\ PositiveSelector
        /\ ~HasDelta(IntOf[req.version]))
       => (ret = Abort(404) /\ calls = <<"find_one", "find_one_version">>)
    /\ ~ItemFound => ret = Abort(404)
    /\ ~config.versioning
       => \E py \in Runtimes :
            ret = getitem(config, [req EXCEPT !.version = NoArg], lookup,
                          data, hooks, py).ret

\* The full documents of a 200 response.
ReturnedDocuments ==
    IF ret.response.kind = "doc" THEN {ret.response.doc}
    ELSE IF ret.response.kind = "empty" THEN {}
    ELSE IF req.version = "diffs"
    THEN {ret.response.items[i] : i \in 1..Len(ret.response.items) \cap {1}}
    ELSE Range(ret.response.items)

\* C10: every document enriched and returned in a 200 response carries an
\* ETag field if and only if conditional matching is enabled, also when
\* its stored form already carries one, and the etag element getitem
\* returns is non-null if and only if conditional matching is enabled.
C10_EtagIffEnabled ==
    (Done /\ ret.kind = "return")
    => /\ ret.status = 200
          => \A d \in ReturnedDocuments : Has(d, ETAG) <=> config.IF_MATCH
       /\ ret.etag # None <=> config.IF_MATCH

(***************************************************************************)
(* Properties of the item fetch with ?version=all, diffs or a number.      *)
(***************************************************************************)
AllVersionsReturned ==
    /\ Done /\ ret.kind = "return" /\ ret.status = 200
    /\ config.versioning /\ req.version \in {"all", "diffs"}

Synthesized == Deref(heap, locals.synthesized)

\* C5: with ?version=diffs the delta records are processed in ascending
\* version order, element 0 of the list is the first synthesized and
\* enriched document and every later element is diff_document of the
\* preceding synthesized document and its own; with ?version=all every
\* element is the synthesized document.  No on_fetch_item callback runs.
C5_DiffSequence ==
    AllVersionsReturned =>
    LET items == ret.response.items
        n == Len(Synthesized)
    IN  /\ Len(items) = n
        /\ Range(calls) \cap HookCalls = {}
        /\ req.version = "all" => items = Synthesized
        /\ req.version = "diffs" =>
             /\ \A i, j \in 1..n :
                  i < j => Synthesized[i][VERSION] < Synthesized[j][VERSION]
             /\ n > 0 => items[1] = Synthesized[1]
             /\ \A k \in 2..n :
                  items[k] = diff_document(config, Synthesized[k - 1],
                                           Synthesized[k])

\* Three versions stored in descending order and returned as diffs.
C5_Witness ==
    /\ AllVersionsReturned /\ req.version = "diffs"
    /\ Len(ret.response.items) = 3
    /\ data.versions[1][VERSION] = 3
    /\ ret.response.items[3] # Synthesized[3]

\* C6: _synthesize_previous_version never mutates its latest-document
\* argument: at the end of an item fetch the latest_doc snapshot still
\* equals the document fetched from storage, before enrichment.
C6_LatestUntouched ==
    (Done /\ locals # NoDoc)
    => heap[locals.latest_doc] = find_one(data.collection, lookup)

\* Several versions were synthesized from latest_doc and enriched.
C6_Witness ==
    /\ AllVersionsReturned
    /\ Len(locals.synthesized) >= 2
    /\ config.IF_MATCH /\ config.hateoas
    /\ heap[locals.latest_doc] # heap[locals.synthesized[1]]

(***************************************************************************)
(* The collection fetch.                                                   *)
(***************************************************************************)
Stored(id, updated) == [_id |-> id, ref |-> 5, a |-> 2] @@ Opt(LAST_UPDATED, updated)

Collections ==
    UNION {{[i \in 1..n |-> Stored(i, u[i])] : u \in [1..n -> MaybeTimes]} :
           n \in 0..MaxDocs}

InitGet ==
    /\ Idle
    /\ \E collection \in Collections, cursor_extra \in BOOLEAN :
         data = Storage(collection, <<>>)
                @@ (IF cursor_extra THEN [cursor_extra |-> TRUE] ELSE NoDoc)
    /\ \E ims \in MaybeTimes, page \in 1..2, max_results \in 1..2 :
         req = Request(ims, None, NoEmbedding, page, max_results, NoArg)
    /\ \E if_match, hateoas, pagination \in BOOLEAN :
         config = Settings(if_match, hateoas, FALSE, pagination, {},
                           Schema(TRUE, TRUE))
    /\ lookup \in {NoDoc, [a |-> 1]}
    /\ hooks \in {"none", "touch"}

Get ==
    /\ pc = "start"
    /\ \E py \in RuntimesOf(config, req) :
       LET o == get(config, req, lookup, data, hooks, py)
       IN  /\ ret' = o.ret
           /\ heap' = o.heap
           /\ locals' = o.locals
           /\ calls' = o.calls
    /\ pc' = "done"
    /\ UNCHANGED <<config, req, lookup, data, hooks>>

NextGet == Get

SpecGet == InitGet /\ [][NextGet]_vars

\* The probe matches nothing: no stored document matches the lookup and
\* was updated after if-modified-since.
ProbeMatchesNothing ==
    /\ req.if_modified_since # None
    /\ ~\E i \in 1..Len(data.collection) :
          /\ Matches(data.collection[i], lookup)
          /\ Has(data.collection[i], LAST_UPDATED)
          /\ data.collection[i][LAST_UPDATED] > req.if_modified_since

\* The documents of a collection response, without what the extra of the
\* cursor has added to it.
IsDocument(item) == Has(item, ID_FIELD)
ReturnedItems == SelectSeq(ret.response.items, IsDocument)
ExtraCall ==
    IF Has(data, "cursor_extra") THEN <<"cursor.extra">> ELSE <<>>

\* C1: get with if-modified-since whose probe matches no document: on a
\* collection that is not empty it returns 304 with an empty body, null
\* last-modified and null etag, without the full query, any enrichment or
\* any on_fetch_resource callback; on an empty collection it goes on to
\* the full query and returns the normal 200 result.
C1_CollectionNotModified ==
    (Done /\ ProbeMatchesNothing) =>
    IF data.collection # <<>>
    THEN /\ ret = Return(EmptyBody, None, None, 304)
         /\ calls = <<"find", "is_empty">>
    ELSE /\ ret.kind = "return" /\ ret.status = 200
         /\ ReturnedItems = <<>>
         /\ calls = <<"find", "is_empty", "find", "on_fetch_resource",
                      "on_fetch_resource_">> \o ExtraCall

\* A collection with documents, none of them newer than if-modified-since.
C1_Witness ==
    /\ Done /\ ProbeMatchesNothing
    /\ Len(data.collection) = 2 /\ lookup = NoDoc
    /\ ret.status = 304

\* The collection fetch returned 200.
Fetched ==
    Done /\ ret.kind = "return" /\ ret.status = 200

\* The stored form of a returned document.
StoredOf(item) ==
    CHOOSE d \in Range(data.collection) : d[ID_FIELD] = item[ID_FIELD]

\* The last-updated timestamps of the returned documents as enrichment
\* sets them: the stored timestamp, the epoch for a document without one.
EnrichedTimes ==
    {last_updated(StoredOf(ReturnedItems[i])) : i \in 1..Len(ReturnedItems)}

Newest ==
    CHOOSE t \in EnrichedTimes \cup {epoch} :
        \A u \in EnrichedTimes \cup {epoch} : u <= t

\* C11: a collection fetch that returns 200 reports as last-modified the
\* maximum last-updated timestamp of the returned documents as enriched
\* before the callbacks run, or null when no timestamp exceeds the epoch;
\* the on_fetch_resource callbacks are called last, after every document
\* is enriched and the value is computed, so a callback that changes a
\* document's timestamp does not change it; the reported etag is null.
C11_LastModifiedBeforeHooks ==
    Fetched =>
    /\ ret.etag = None
    /\ ret.last_modified = (IF Newest > epoch THEN Newest ELSE None)
    /\ locals.last_update = Newest
    /\ \E n \in 1..Len(calls) - 1 :
         /\ SubSeq(calls, n, Len(calls))
              = <<"on_fetch_resource", "on_fetch_resource_">> \o ExtraCall
         /\ Range(SubSeq(calls, 1, n - 1)) \cap HookCalls = {}
         /\ SubSeq(calls, n - Len(ReturnedItems), n - 1)
              = [i \in 1..Len(ReturnedItems) |-> "build"]

\* A callback has moved the timestamp of both returned documents past the
\* reported last-modified.
C11_Witness ==
    /\ Fetched /\ hooks = "touch"
    /\ Len(ReturnedItems) = 2
    /\ \A i \in 1..2 : ReturnedItems[i][LAST_UPDATED] = HookTime
    /\ ret.last_modified \in Times
    /\ EnrichedTimes = {epoch, ret.last_modified}

(***************************************************************************)
(* _synthesize_previous_version applied twice.                             *)
(***************************************************************************)
InitSynth ==
    /\ pc = "start"
    /\ calls = <<>>
    /\ ret = [kind |-> "none"]
    /\ \E updated \in MaybeTimes, version \in {None, MaxVersions},
          v \in 1..MaxVersions, lacking \in BOOLEAN :
         data = Storage(<<Item(updated, None, version, None)>>,
                        <<Delta(v, IF lacking THEN v ELSE 0)>>)
    /\ heap = <<data.collection[1], data.versions[1]>>
    /\ locals = [latest |-> 1, delta |-> 2, first |-> 0, second |-> 0]
    /\ \E versioned \in {{"a", LAST_UPDATED}, {"a"}, {"a", "ref"}} :
         config = [Settings(TRUE, FALSE, TRUE, TRUE, {}, Schema(TRUE, TRUE))
                   EXCEPT !.versioned = versioned]
    /\ req = Request(None, None, NoEmbedding, 1, 25, NoArg)
    /\ lookup = [_id |-> 1]
    /\ hooks = "none"

\* s1 = _synthesize_previous_version(latest, delta, resource_def)
Synthesize ==
    /\ pc = "start"
    /\ LET s == _synthesize_previous_version(heap, locals.latest, locals.delta,
                                             config)
       IN  /\ heap' = s.heap
           /\ locals' = [locals EXCEPT !.first = s.ref]
           /\ ret' = [kind |-> "synthesized", err |-> s.err]
    /\ calls' = Append(calls, "synthesize")
    /\ pc' = "once"
    /\ UNCHANGED <<config, req, lookup, data, hooks>>

\* s2 = _synthesize_previous_version(s1, delta, resource_def), with the
\* record the first call was given or with the record read from storage again.
Resynthesize ==
    /\ pc = "once"
    /\ ret.err = "ok"
    /\ \E reread \in BOOLEAN :
         LET h == IF reread THEN Append(heap, data.versions[1]) ELSE heap
             delta == IF reread THEN Len(h) ELSE locals.delta
             s == _synthesize_previous_version(h, locals.first, delta, config)
         IN  /\ heap' = s.heap
             /\ locals' = [locals EXCEPT !.second = s.ref, !.delta = delta]
             /\ ret' = [kind |-> "synthesized", err |-> s.err]
    /\ calls' = Append(calls, "synthesize")
    /\ pc' = "twice"
    /\ UNCHANGED <<config, req, lookup, data, hooks>>

NextSynth == Synthesize \/ Resynthesize

SpecSynth == InitSynth /\ [][NextSynth]_vars

\* C7: version synthesis is idempotent: for every latest document and
\* delta record, synthesizing version N and then re-applying version N's
\* own delta to the synthesized output succeeds and reproduces the same
\* synthesized document.
C7_SynthesisIdempotent ==
    pc = "twice"
    => /\ ret.err = "ok"
       /\ heap[locals.second] = heap[locals.first]

(***************************************************************************)
(* _pagination_links.                                                      *)
(***************************************************************************)
InitLinks ==
    /\ Idle
    /\ \E count \in 0..MaxCount : data = [count |-> count]
    /\ \E page \in 1..MaxPage, max_results \in 1..MaxResults :
         req = Request(None, None, NoEmbedding, page, max_results, NoArg)
    /\ \E pagination \in BOOLEAN :
         config = Settings(TRUE, TRUE, FALSE, pagination, {}, Schema(TRUE, TRUE))
    /\ lookup = NoDoc
    /\ hooks = "none"

PaginationLinks ==
    /\ pc = "start"
    /\ ret' = [kind |-> "links",
               links |-> _pagination_links(config, req, data.count)]
    /\ calls' = <<"_pagination_links">>
    /\ pc' = "done"
    /\ UNCHANGED <<config, req, lookup, data, hooks, heap, locals>>

NextLinks == PaginationLinks

SpecLinks == InitLinks /\ [][NextLinks]_vars

Paginated == config.pagination /\ data.count # 0
\* n is ceil(count / max_results).
IsCeiling(n) ==
    (n - 1) * req.max_results < data.count /\ data.count <= n * req.max_results

\* C8 as stated: `last` is present whenever pagination is enabled and the
\* count is non-zero, also on the last page, and points to page
\* ceil(count / max_results); with count 0 or pagination disabled only
\* `parent` and `self` are present.
C8_LastWheneverPaginated ==
    Done =>
    /\ Paginated => /\ Has(ret.links, "last")
                    /\ IsCeiling(ret.links["last"].href[3])
    /\ ~Paginated => DOMAIN ret.links = {"parent", "self"}

\* C8 amended: `last` is present exactly when pagination is enabled, the
\* count is non-zero and page * max_results < count, that is together with
\* `next`; it then points to page ceil(count / max_results).  On the last
\* page and beyond there is no `last`.  With count 0 or pagination
\* disabled only `parent` and `self` are present.
C8_LastWithNext ==
    Done =>
    /\ Has(ret.links, "last")
         <=> (Paginated /\ req.page * req.max_results < data.count)
    /\ Has(ret.links, "last") <=> Has(ret.links, "next")
    /\ Has(ret.links, "last") => IsCeiling(ret.links["last"].href[3])
    /\ ~Paginated => DOMAIN ret.links = {"parent", "self"}

\* A page before the last one of a count the page size does not divide.
C8_Witness ==
    /\ Done /\ Paginated
    /\ data.count % req.max_results # 0
    /\ req.page > 1
    /\ Has(ret.links, "last") /\ Has(ret.links, "prev")

(***************************************************************************)
(* Embedding: the item fetch over embedding clauses, schemas and defaults. *)
(***************************************************************************)
OptToken(k, token) == IF token = "-" THEN NoDoc ELSE (k :> token)

Clauses ==
    {[kind |-> "none"], [kind |-> "malformed"], [kind |-> "nondict"]}
    \cup {[kind |-> "dict",
           items |-> OptToken("user", u) @@ OptToken("a", a)
                     @@ OptToken("bogus", b)] :
          u \in {"-", "0", "1", "1.0", "true", "one"},
          a \in {"-", "1"}, b \in {"-", "1"}}

InitEmbed ==
    /\ Idle
    /\ \E user \in {None, 1, 2} :
         data = [Storage(<<Item(1, None, None, user)>>, <<>>)
                   EXCEPT !.related = {1, 5}]
    /\ \E clause \in Clauses :
         req = Request(None, None, clause, 1, 25, NoArg)
    /\ \E if_match, relation, embeddable, ref_relation \in BOOLEAN,
          defaults \in {{}, {"user"}, {"user", "ref"}} :
         config = Settings(if_match, FALSE, FALSE, TRUE, defaults,
                           [Schema(relation, embeddable) EXCEPT
                              !.ref = [data_relation |-> ref_relation,
                                       embeddable |-> ref_relation]])
    /\ lookup = [_id |-> 1]
    /\ hooks = "none"

SpecEmbed == InitEmbed /\ [][Next]_vars

Served == Done /\ ret.kind = "return" /\ ret.status = 200
\* The returned document carries a related document in place of the reference.
Expanded(f) ==
    /\ Has(data.collection[1], f)
    /\ ret.response.doc[f] = EmbeddedBase + data.collection[1][f]
InClause(f, tokens) ==
    /\ req.embedded.kind = "dict"
    /\ Has(req.embedded.items, f)
    /\ req.embedded.items[f] \in tokens
DeclaredEmbeddable(f) ==
    /\ f \in DOMAIN config.schema
    /\ config.schema[f].data_relation
    /\ config.schema[f].embeddable
\* The request without the names that are unknown or not embeddable.
WithoutRejected ==
    IF req.embedded.kind # "dict" THEN req
    ELSE [req EXCEPT !.embedded.items =
            [f \in {g \in DOMAIN req.embedded.items : DeclaredEmbeddable(g)}
               |-> req.embedded.items[f]]]
SameAsWithoutRejected ==
    \E py \in Runtimes :
        ret = getitem(config, WithoutRejected, lookup, data, hooks, py).ret

\* C9 as stated: a field of a returned document is expanded only if it was
\* requested in the request's embedding clause with value 1 and is declared
\* in the schema with an embeddable relation; unknown or not embeddable
\* names are dropped without error and change nothing in the response.
C9_ExpandedOnlyIfRequested ==
    Done =>
    /\ Served => \A f \in DOMAIN ret.response.doc :
                   Expanded(f) => (InClause(f, {"1"}) /\ DeclaredEmbeddable(f))
    /\ SameAsWithoutRejected

\* C9 amended: a field of a returned document is expanded only if it is
\* declared in the schema with an embeddable relation and is either listed
\* in the resource's default embedded fields or requested in the request's
\* embedding clause with a value Python holds equal to 1 (1, 1.0 or true);
\* unknown or not embeddable names are dropped without error and change
\* nothing in the response.
C9_ExpandedOnlyIfResolved ==
    Done =>
    /\ Served => \A f \in DOMAIN ret.response.doc :
                   Expanded(f) =>
                     /\ DeclaredEmbeddable(f)
                     /\ \/ f \in config.embedded_fields
                        \/ InClause(f, {"1", "1.0", "true"})
    /\ SameAsWithoutRejected

\* A requested field is expanded while an unknown name is requested too.
C9_Witness ==
    /\ Served /\ Expanded("user")
    /\ InClause("user", {"1"}) /\ InClause("bogus", {"1"})
    /\ config.embedded_fields = {}

====
